---- MODULE Spec2Model ----
(***************************************************************************)
(* State-machine model of the CPLMM inference core:                        *)
(*   cplmm/models/cplmm.py       fit_cplmm_all_proteins                    *)
(*   cplmm/stats/wald_test.py    compute_wald_test                         *)
(*   cplmm/stats/mannwhitney.py  compare_groups_mannwhitney                *)
(*                                                                         *)
(* Numbers.  A float cell of a table is <<v>> (v an integer count of       *)
(* twentieths) or Missing = <<>> (NaN).  Derived quantities (Wald          *)
(* statistics, p-values, adjusted p-values, means) are exact rationals     *)
(* <<num, den>> in lowest terms, den > 0.  Rounding of binary floating     *)
(* point is not modelled.                                                  *)
(*                                                                         *)
(* A DataFrame is [columns |-> set of column names, rows |-> sequence of   *)
(* functions from column name to cell].  Looking up a column that is not   *)
(* in columns raises KeyError, as pandas does.                             *)
(***************************************************************************)
EXTENDS Integers, Sequences, FiniteSets, TLC

VARIABLES
    call,           \* which public function the caller invoked
    pc,             \* position inside the running call
    err,            \* exception that reached the caller ("" if none)
    alpha,          \* parameter alpha of both comparators
    rank_by,        \* parameter rank_by of both comparators
    \* ---- compute_wald_test
    results_df,     \* parameter: the slope table (sequence of rows)
    adjust_p,       \* parameter
    i,              \* number of rows / proteins / genes the loop has consumed
    wald_results,   \* the list wald_results
    wald_df,        \* the DataFrame wald_df
    \* ---- fit_cplmm_all_proteins
    cohorts,        \* parameters df_status_change, df_normal, df_abnormal
    protein_list,   \* parameter
    fits,           \* what the three helper calls of this iteration returned
    results,        \* the dict results, in insertion order
    df_results,     \* the returned DataFrame
    df_local,       \* the helper's local df once lines 28-31 have run
    \* ---- compare_groups_mannwhitney
    combined_expr,  \* parameter: long table (Gene, Expression, Source)
    gene_list,      \* parameter
    group1,         \* parameter
    group2,         \* parameter
    mw_results,     \* the list results
    mw_df,          \* the DataFrame results_df
    \* ---- preprocessing
    visits,         \* parameter df: the visit table (sequence of rows)
    df_sorted,      \* the table sorted by subject and date
    abnormal_seen,  \* the flag of correct_status
    returned        \* the table handed back

waldVars == <<results_df, adjust_p, wald_results, wald_df>>
fitVars == <<cohorts, protein_list, fits, results, df_results, df_local>>
mwVars == <<combined_expr, gene_list, group1, group2, mw_results, mw_df>>
prepVars == <<visits, df_sorted, abnormal_seen, returned>>
vars == <<call, pc, err, alpha, rank_by, i, waldVars, fitVars, mwVars, prepVars>>

(***************************************************************************)
(* Bounds of the model.                                                    *)
(***************************************************************************)
MaxRows == 2        \* longest slope table handed to compute_wald_test
MaxProteins == 2    \* longest protein_list handed to fit_cplmm_all_proteins
MaxGenes == 2       \* longest gene_list handed to compare_groups_mannwhitney

(***************************************************************************)
(* Cells and rationals.                                                    *)
(***************************************************************************)
Missing == <<>>
None == [none |-> TRUE]
NoFrame == [columns |-> {}, rows |-> <<>>]

IsNa(x) == x = Missing

RECURSIVE Gcd(_, _)
Gcd(a, b) == IF b = 0 THEN a ELSE Gcd(b, a % b)

Abs(x) == IF x < 0 THEN -x ELSE x

\* the rational n/d (d > 0) in lowest terms
Rat(n, d) == LET g == Gcd(Abs(n), d) IN <<n \div g, d \div g>>

RLt(a, b) == a[1] * b[2] < b[1] * a[2]
RLe(a, b) == a[1] * b[2] <= b[1] * a[2]
RMin(a, b) == IF RLe(a, b) THEN a ELSE b
ROne == <<1, 1>>
RZero == <<0, 1>>

\* row.get(col, np.nan)
Get(row, col) == IF col \in DOMAIN row THEN row[col] ELSE Missing

\* a frame with one more column, filled row by row from the sequence vals
WithColumn(df, col, vals) ==
    [columns |-> df.columns \cup {col},
     rows |-> [r \in 1..Len(df.rows) |->
                 [c \in DOMAIN df.rows[r] \cup {col} |->
                     IF c = col THEN vals[r] ELSE df.rows[r][c]]]]

\* pd.DataFrame(list of dicts): the columns are the keys of the dicts, so an
\* empty list gives a frame without any column
DataFrame(records) ==
    [columns |-> UNION {DOMAIN records[r] : r \in 1..Len(records)},
     rows |-> records]

\* df[col] as a sequence of cells
Column(df, col) == [r \in 1..Len(df.rows) |-> df.rows[r][col]]

(***************************************************************************)
(* scipy.stats.chi2: upper tail 1 - chi2.cdf(w, df=1), tabulated to four   *)
(* decimals at the statistics the model's inputs produce (TLC's integers   *)
(* are 32 bits wide, which limits the denominators).                       *)
(***************************************************************************)
Chi2Sf(w) ==
    CASE w = Missing   -> Missing
      [] w = <<0, 1>>  -> Rat(10000, 10000)
      [] w = <<1, 5>>  -> Rat(6547, 10000)
      [] w = <<4, 5>>  -> Rat(3711, 10000)
      [] w = <<6, 5>>  -> Rat(2733, 10000)
      [] w = <<36, 5>> -> Rat(73, 10000)
      [] w = <<64, 5>> -> Rat(3, 10000)

(***************************************************************************)
(* statsmodels multipletests(pvals, method="fdr_bh")[1]:                   *)
(*   sort ascending, divide by the ecdf factor k/n, running minimum from   *)
(*   the largest down, cap at 1, undo the sort.                            *)
(***************************************************************************)
\* position of element r after a stable ascending argsort of pvals
SortPos(pvals, r) ==
    Cardinality({k \in 1..Len(pvals) : RLt(pvals[k], pvals[r])})
    + Cardinality({k \in 1..r : pvals[k] = pvals[r]})

RECURSIVE MinFrom(_, _)
\* np.minimum.accumulate over the reversed sequence, read at position k
MinFrom(s, k) == IF k = Len(s) THEN s[k] ELSE RMin(s[k], MinFrom(s, k + 1))

\* mutant: the running minimum is left out
FdrBhNoRunningMin(pvals) ==
    LET n == Len(pvals)
        sorted == [k \in 1..n |->
                     pvals[CHOOSE r \in 1..n : SortPos(pvals, r) = k]]
        raw == [k \in 1..n |-> Rat(sorted[k][1] * n, sorted[k][2] * k)]
    IN [r \in 1..n |-> RMin(raw[SortPos(pvals, r)], ROne)]

FdrBh(pvals) ==
    LET n == Len(pvals)
        sorted == [k \in 1..n |->
                     pvals[CHOOSE r \in 1..n : SortPos(pvals, r) = k]]
        raw == [k \in 1..n |-> Rat(sorted[k][1] * n, sorted[k][2] * k)]
        corrected == [k \in 1..n |-> RMin(MinFrom(raw, k), ROne)]
    IN [r \in 1..n |-> corrected[SortPos(pvals, r)]]

(***************************************************************************)
(* compute_wald_test                                                       *)
(***************************************************************************)
BetaCols == {"Beta 1", "SE Beta 1", "Beta 3", "SE Beta 3",
             "Beta 2", "SE Beta 2", "Beta 4", "SE Beta 4"}

\* mutant: the completeness test looks at the four betas only
AnyMissingBetasOnly(row) ==
    \E c \in {"Beta 1", "Beta 2", "Beta 3", "Beta 4"} : Get(row, c) = <<>>

\* any(pd.isna([beta_1, se_beta_1, beta_3, se_beta_3, beta_2, ...]))
AnyMissing(row) == \E c \in BetaCols : IsNa(Get(row, c))

\* se_a ** 2 + se_b ** 2 (NaN when one of them is)
WaldDenominator(se_a, se_b) ==
    IF IsNa(se_a) \/ IsNa(se_b) THEN Missing
    ELSE <<se_a[1] * se_a[1] + se_b[1] * se_b[1]>>

\* mutant: the difference of the slopes is not squared
WaldStatisticUnsquared(beta_a, se_a, beta_b, se_b) ==
    IF IsNa(beta_a) \/ IsNa(beta_b) \/ IsNa(WaldDenominator(se_a, se_b))
    THEN Missing
    ELSE Rat(Abs(beta_a[1] - beta_b[1]), WaldDenominator(se_a, se_b)[1])

\* ((beta_a - beta_b) ** 2) / (se_a ** 2 + se_b ** 2); NaN operands give NaN
WaldStatistic(beta_a, se_a, beta_b, se_b) ==
    IF IsNa(beta_a) \/ IsNa(beta_b) \/ IsNa(WaldDenominator(se_a, se_b))
    THEN Missing
    ELSE Rat((beta_a[1] - beta_b[1]) * (beta_a[1] - beta_b[1]),
             WaldDenominator(se_a, se_b)[1])

\* Python float division raises ZeroDivisionError on a zero divisor (the cells
\* of an iterrows() row of a table with a string column are Python floats)
WaldDivides(row) ==
    /\ WaldDenominator(Get(row, "SE Beta 1"), Get(row, "SE Beta 3")) /= <<0>>
    /\ WaldDenominator(Get(row, "SE Beta 2"), Get(row, "SE Beta 4")) /= <<0>>

\* the dict appended to wald_results
WaldRecord(row) ==
    LET w1 == WaldStatistic(Get(row, "Beta 1"), Get(row, "SE Beta 1"),
                            Get(row, "Beta 3"), Get(row, "SE Beta 3"))
        w2 == WaldStatistic(Get(row, "Beta 2"), Get(row, "SE Beta 2"),
                            Get(row, "Beta 4"), Get(row, "SE Beta 4"))
    IN [c \in BetaCols \cup {"Protein", "Wald Statistic 1", "P-value 1",
                             "Wald Statistic 2", "P-value 2"} |->
          CASE c = "Wald Statistic 1" -> w1
            [] c = "P-value 1" -> Chi2Sf(w1)
            [] c = "Wald Statistic 2" -> w2
            [] c = "P-value 2" -> Chi2Sf(w2)
            [] OTHER -> Get(row, c)]

AdjCol(n) == IF n = 1 THEN "Adjusted P-value 1" ELSE "Adjusted P-value 2"
SigCol(n) == IF n = 1 THEN "Significant 1" ELSE "Significant 2"
PCol(n) == IF n = 1 THEN "P-value 1" ELSE "P-value 2"

\* mutant: both p-value columns are adjusted as one family of 2n tests
AdjustColumnPooled(df, n, a) ==
    LET rows == Len(df.rows)
        pooled == FdrBh(Column(df, "P-value 1") \o Column(df, "P-value 2"))
        p_adj == [r \in 1..rows |-> pooled[IF n = 1 THEN r ELSE rows + r]]
    IN WithColumn(WithColumn(df, AdjCol(n), p_adj), SigCol(n),
                  [r \in 1..rows |-> RLt(p_adj[r], a)])

\* mutant: the flag is set at adjusted p <= alpha
AdjustColumnInclusive(df, n, a) ==
    LET p_adj == FdrBh(Column(df, PCol(n)))
    IN WithColumn(WithColumn(df, AdjCol(n), p_adj), SigCol(n),
                  [r \in 1..Len(p_adj) |-> RLe(p_adj[r], a)])

\* one pass of the loop "for i in [1, 2]" of the FDR adjustment
AdjustColumn(df, n, a) ==
    LET p_adj == FdrBh(Column(df, PCol(n)))
        withAdj == WithColumn(df, AdjCol(n), p_adj)
    IN WithColumn(withAdj, SigCol(n),
                  [r \in 1..Len(p_adj) |-> RLt(p_adj[r], a)])

\* mutant: the table is always ranked by the first comparison
RankColFirstComparison(adj, rb) ==
    IF adj THEN "Adjusted P-value 1" ELSE "P-value 1"

\* rank_col = f"Adjusted P-value {rank_by}" if adjust_p else f"P-value {rank_by}"
RankCol(adj, rb) ==
    IF adj THEN (IF rb = 1 THEN "Adjusted P-value 1"
                 ELSE IF rb = 2 THEN "Adjusted P-value 2"
                 ELSE "Adjusted P-value ?")
    ELSE (IF rb = 1 THEN "P-value 1"
          ELSE IF rb = 2 THEN "P-value 2"
          ELSE "P-value ?")

Perms(n) == {f \in [1..n -> 1..n] : \A a, b \in 1..n : a /= b => f[a] /= f[b]}

\* the row orders sort_values(by=col) can return: ascending in col; the default
\* quicksort does not promise an order among equal keys
SortOrders(rows, col, ascending) ==
    {f \in Perms(Len(rows)) :
        \A a, b \in 1..Len(rows) :
            a < b => IF ascending THEN RLe(rows[f[a]][col], rows[f[b]][col])
                     ELSE RLe(rows[f[b]][col], rows[f[a]][col])}

\* the rows of df taken in the order f; reset_index(drop=True) renumbers them
Reordered(df, f) ==
    [columns |-> df.columns, rows |-> [r \in 1..Len(df.rows) |-> df.rows[f[r]]]]

\* wald_df["Rank"] = range(1, len(wald_df) + 1)
WithRank(df) == WithColumn(df, "Rank", [r \in 1..Len(df.rows) |-> r])

(***************************************************************************)
(* Inputs of compute_wald_test.                                            *)
(***************************************************************************)
SlopeRow(b1, s1, b3, s3, b2, s2, b4, s4) ==
    ("Beta 1" :> b1) @@ ("SE Beta 1" :> s1) @@ ("Beta 3" :> b3) @@
    ("SE Beta 3" :> s3) @@ ("Beta 2" :> b2) @@ ("SE Beta 2" :> s2) @@
    ("Beta 4" :> b4) @@ ("SE Beta 4" :> s4)

\* Complete slope rows (twentieths).  ScenarioA is the spec's NFL example.
ScenarioA == SlopeRow(<<10>>, <<2>>, <<-6>>, <<4>>, <<2>>, <<1>>, <<8>>, <<2>>)
NullFirst == SlopeRow(<<10>>, <<2>>, <<10>>, <<4>>, <<2>>, <<1>>, <<8>>, <<2>>)
NullSecond == SlopeRow(<<10>>, <<2>>, <<6>>, <<4>>, <<2>>, <<1>>, <<2>>, <<2>>)
ZeroSe == SlopeRow(<<10>>, <<0>>, <<10>>, <<0>>, <<2>>, <<1>>, <<8>>, <<2>>)
ZeroSeSecond == SlopeRow(<<10>>, <<2>>, <<-6>>, <<4>>, <<2>>, <<0>>, <<8>>, <<0>>)

CompleteSlopes == {ScenarioA, NullFirst, NullSecond, ZeroSe, ZeroSeSecond}

\* ScenarioA with one of the eight values missing
IncompleteSlopes ==
    {[c \in BetaCols |-> IF c = m THEN Missing ELSE ScenarioA[c]] : m \in BetaCols}

ProteinNames == <<"P1", "P2", "P3", "P4">>

\* slope tables: the r-th row is the r-th protein of the panel
SlopeTables ==
    UNION {{[r \in 1..n |-> ("Protein" :> ProteinNames[r]) @@ t[r]] :
              t \in [1..n -> CompleteSlopes \cup IncompleteSlopes]} :
           n \in 0..MaxRows}

Alphas == {Rat(1, 20), ROne}

\* rank_by: the two comparisons, and a value that names neither
RankBys == {1, 2, 3}

InitWald ==
    /\ call = "compute_wald_test"
    /\ pc = "wald_loop"
    /\ err = ""
    /\ results_df \in SlopeTables
    /\ adjust_p \in BOOLEAN
    /\ alpha \in (IF adjust_p THEN Alphas ELSE {Rat(1, 20)})
    /\ rank_by \in RankBys
    /\ i = 0
    /\ wald_results = <<>>
    /\ wald_df = NoFrame
    /\ cohorts = <<>> /\ protein_list = <<>> /\ fits = <<>>
    /\ results = <<>> /\ df_results = NoFrame /\ df_local = NoFrame
    /\ visits = <<>> /\ df_sorted = <<>> /\ abnormal_seen = FALSE /\ returned = <<>>
    /\ combined_expr = <<>> /\ gene_list = <<>> /\ group1 = "" /\ group2 = ""
    /\ mw_results = <<>> /\ mw_df = NoFrame

Raise(e) == pc' = "raised" /\ err' = e

\* loop body, "continue" branch: the row has a missing value
WaldSkip ==
    /\ pc = "wald_loop" /\ i < Len(results_df)
    /\ AnyMissing(results_df[i + 1])
    /\ i' = i + 1
    /\ UNCHANGED <<prepVars, call, pc, err, alpha, rank_by, results_df, adjust_p,
                   wald_results, wald_df, fitVars, mwVars>>

\* loop body: the row is complete and both divisions succeed
WaldAppend ==
    /\ pc = "wald_loop" /\ i < Len(results_df)
    /\ ~AnyMissing(results_df[i + 1])
    /\ WaldDivides(results_df[i + 1])
    /\ wald_results' = Append(wald_results, WaldRecord(results_df[i + 1]))
    /\ i' = i + 1
    /\ UNCHANGED <<prepVars, call, pc, err, alpha, rank_by, results_df, adjust_p,
                   wald_df, fitVars, mwVars>>

\* loop body: the row is complete and a denominator is 0.0
WaldZeroDivision ==
    /\ pc = "wald_loop" /\ i < Len(results_df)
    /\ ~AnyMissing(results_df[i + 1])
    /\ ~WaldDivides(results_df[i + 1])
    /\ Raise("ZeroDivisionError")
    /\ UNCHANGED <<prepVars, call, alpha, rank_by, results_df, adjust_p, i,
                   wald_results, wald_df, fitVars, mwVars>>

\* mutant: the table is built and adjusted while rows are still to be read
WaldFrameEarly ==
    /\ pc = "wald_loop" /\ i <= Len(results_df)
    /\ wald_df' = DataFrame(wald_results)
    /\ pc' = "wald_fdr"
    /\ UNCHANGED <<prepVars, call, err, alpha, rank_by, results_df, adjust_p, i,
                   wald_results, fitVars, mwVars>>

\* wald_df = pd.DataFrame(wald_results)
WaldFrame ==
    /\ pc = "wald_loop" /\ i = Len(results_df)
    /\ wald_df' = DataFrame(wald_results)
    /\ pc' = "wald_fdr"
    /\ UNCHANGED <<prepVars, call, err, alpha, rank_by, results_df, adjust_p, i,
                   wald_results, fitVars, mwVars>>

\* if adjust_p: both columns, one after the other
WaldAdjust ==
    /\ pc = "wald_fdr" /\ adjust_p
    /\ "P-value 1" \in wald_df.columns
    /\ wald_df' = AdjustColumn(AdjustColumn(wald_df, 1, alpha), 2, alpha)
    /\ pc' = "wald_rank"
    /\ UNCHANGED <<prepVars, call, err, alpha, rank_by, results_df, adjust_p, i,
                   wald_results, fitVars, mwVars>>

\* if adjust_p, on a frame without columns: wald_df["P-value 1"] raises
WaldAdjustKeyError ==
    /\ pc = "wald_fdr" /\ adjust_p
    /\ "P-value 1" \notin wald_df.columns
    /\ Raise("KeyError")
    /\ UNCHANGED <<prepVars, call, alpha, rank_by, results_df, adjust_p, i,
                   wald_results, wald_df, fitVars, mwVars>>

WaldNoAdjust ==
    /\ pc = "wald_fdr" /\ ~adjust_p
    /\ pc' = "wald_rank"
    /\ UNCHANGED <<prepVars, call, err, alpha, rank_by, results_df, adjust_p, i,
                   wald_results, wald_df, fitVars, mwVars>>

\* sort_values(by=rank_col).reset_index(drop=True); Rank; return
WaldRank ==
    /\ pc = "wald_rank"
    /\ RankCol(adjust_p, rank_by) \in wald_df.columns
    /\ \E f \in SortOrders(wald_df.rows, RankCol(adjust_p, rank_by), TRUE) :
          wald_df' = WithRank(Reordered(wald_df, f))
    /\ pc' = "done"
    /\ UNCHANGED <<prepVars, call, err, alpha, rank_by, results_df, adjust_p, i,
                   wald_results, fitVars, mwVars>>

\* sort_values(by=rank_col) on a frame that lacks rank_col
WaldRankKeyError ==
    /\ pc = "wald_rank"
    /\ RankCol(adjust_p, rank_by) \notin wald_df.columns
    /\ Raise("KeyError")
    /\ UNCHANGED <<prepVars, call, alpha, rank_by, results_df, adjust_p, i,
                   wald_results, wald_df, fitVars, mwVars>>

(***************************************************************************)
(* fit_cplmm_all_proteins                                                  *)
(*                                                                         *)
(* A cohort table carries its column names and, per visit, the cell of     *)
(* years_since_onset (and of before_onset / after_onset when the caller's  *)
(* table already has them); the other cells are not read by the code.      *)
(***************************************************************************)
CohortNames == <<"status", "normal", "abnormal">>
Covariates == {"SEX", "BASELINE_AGE"}
Proteins == {"P1", "P2"}
BaseColumns == {"SUBID", "years_since_onset"} \cup Covariates \cup Proteins
BasisColumns == {"before_onset", "after_onset"}

Max(a, b) == IF a >= b THEN a ELSE b

\* mutant: the two basis columns are computed the other way round
PrivateCopySwapped(df) ==
    LET cp == 0
    IN [columns |-> df.columns \cup BasisColumns,
        rows |-> [r \in 1..Len(df.rows) |->
                    [c \in DOMAIN df.rows[r] \cup BasisColumns |->
                        CASE c = "before_onset" ->
                               <<Max(0, df.rows[r]["years_since_onset"][1] - cp)>>
                          [] c = "after_onset" ->
                               <<Max(0, cp - df.rows[r]["years_since_onset"][1])>>
                          [] OTHER -> df.rows[r][c]]]]

\* df = df.copy(); cp = 0; df['before_onset'] = np.maximum(0, cp - t);
\* df['after_onset'] = np.maximum(0, t - cp)
PrivateCopy(df) ==
    LET cp == 0
    IN [columns |-> df.columns \cup BasisColumns,
        rows |-> [r \in 1..Len(df.rows) |->
                    [c \in DOMAIN df.rows[r] \cup BasisColumns |->
                        CASE c = "before_onset" ->
                               <<Max(0, cp - df.rows[r]["years_since_onset"][1])>>
                          [] c = "after_onset" ->
                               <<Max(0, df.rows[r]["years_since_onset"][1] - cp)>>
                          [] OTHER -> df.rows[r][c]]]]

\* mutant: the two columns are assigned on the caller's table, without a copy
HelperFramesInPlace(df) == [caller |-> PrivateCopy(df), local |-> PrivateCopy(df)]

\* the two tables a helper call leaves behind once lines 28-31 have run: the
\* one the caller passed, and the one the local name df is then bound to
HelperFrames(df) == [caller |-> df, local |-> PrivateCopy(df)]

\* the slope terms of formula_status, formula_normal, formula_abnormal
SlopeTerms(cohort) ==
    CASE cohort = "status" -> {"before_onset", "after_onset"}
      [] cohort = "normal" -> {"before_onset"}
      [] cohort = "abnormal" -> {"after_onset"}

\* every variable the formula of a cohort names
FormulaVars(cohort, protein) == {protein} \cup SlopeTerms(cohort) \cup Covariates

\* smf.mixedlm(formula, df, groups).fit(), when it returns: the estimates are
\* whatever the estimator finds, one coefficient and standard error per term
Coefficients == {<<-10>>, <<6>>}
MixedLmResults(cohort) ==
    {[fe_params |-> ("Intercept" :> <<20>>) @@ fe,
      bse |-> ("Intercept" :> <<1>>) @@ [t \in SlopeTerms(cohort) |-> <<2>>],
      aic |-> <<50>>, bic |-> <<60>>] :
        fe \in [SlopeTerms(cohort) -> Coefficients]}

\* -x on a float cell
Neg(x) == IF IsNa(x) THEN Missing ELSE <<0 - x[1]>>

\* mutant: the before_onset coefficient is reported as estimated
FitLmmWithoutSignFlip(df, result) ==
    IF df.rows = <<>>
    THEN <<Missing, Missing, None>>
    ELSE <<Get(result.fe_params, "before_onset"),
           Get(result.fe_params, "after_onset"),
           result,
           Get(result.bse, "before_onset"),
           Get(result.bse, "after_onset")>>

\* the tuple fit_lmm_and_get_slopes returns for a table and, when the table has
\* rows, the result the estimator produced
FitLmmAndGetSlopes(df, result) ==
    IF df.rows = <<>>
    THEN <<Missing, Missing, None>>
    ELSE <<Neg(Get(result.fe_params, "before_onset")),
           Get(result.fe_params, "after_onset"),
           result,
           Get(result.bse, "before_onset"),
           Get(result.bse, "after_onset")>>

\* "a, b, c, d, e = <tuple>" needs exactly five values
UnpackArity == 5

\* result.predict(df) builds the design matrix from the caller's table: it
\* fails when a variable of the formula is not a column of that table
PredictWorks(cohort, protein, df) == FormulaVars(cohort, protein) \subseteq df.columns

\* get_metrics(result, df, group_name); mean_squared_error is some number
GetMetrics(result) ==
    IF result = None
    THEN <<Missing, Missing, Missing>>
    ELSE <<result.aic, result.bic, <<3>>>>

\* mutant: the always-normal slope is stored with the helper's flip undone
SlopeRecordUnflipped(protein, f) ==
    LET m_s == GetMetrics(f[1][3])
        m_n == GetMetrics(f[2][3])
        m_a == GetMetrics(f[3][3])
    IN ("Protein" :> protein) @@
       ("Beta 1" :> f[1][1]) @@ ("SE Beta 1" :> f[1][4]) @@
       ("Beta 2" :> Neg(f[2][1])) @@ ("SE Beta 2" :> f[2][4]) @@
       ("Beta 3" :> f[1][2]) @@ ("SE Beta 3" :> f[1][5]) @@
       ("Beta 4" :> f[3][2]) @@ ("SE Beta 4" :> f[3][5]) @@
       ("Intercept" :> IF f[1][3] /= None
                       THEN Get(f[1][3].fe_params, "Intercept") ELSE Missing) @@
       ("AIC Status" :> m_s[1]) @@ ("BIC Status" :> m_s[2]) @@
       ("MSE Status" :> m_s[3]) @@
       ("AIC Normal" :> m_n[1]) @@ ("BIC Normal" :> m_n[2]) @@
       ("MSE Normal" :> m_n[3]) @@
       ("AIC Abnormal" :> m_a[1]) @@ ("BIC Abnormal" :> m_a[2]) @@
       ("MSE Abnormal" :> m_a[3])

\* the dict stored as results[protein]
SlopeRecord(protein, f) ==
    LET m_s == GetMetrics(f[1][3])
        m_n == GetMetrics(f[2][3])
        m_a == GetMetrics(f[3][3])
    IN ("Protein" :> protein) @@
       ("Beta 1" :> f[1][1]) @@ ("SE Beta 1" :> f[1][4]) @@
       ("Beta 2" :> f[2][1]) @@ ("SE Beta 2" :> f[2][4]) @@
       ("Beta 3" :> f[1][2]) @@ ("SE Beta 3" :> f[1][5]) @@
       ("Beta 4" :> f[3][2]) @@ ("SE Beta 4" :> f[3][5]) @@
       ("Intercept" :> IF f[1][3] /= None
                       THEN Get(f[1][3].fe_params, "Intercept") ELSE Missing) @@
       ("AIC Status" :> m_s[1]) @@ ("BIC Status" :> m_s[2]) @@
       ("MSE Status" :> m_s[3]) @@
       ("AIC Normal" :> m_n[1]) @@ ("BIC Normal" :> m_n[2]) @@
       ("MSE Normal" :> m_n[3]) @@
       ("AIC Abnormal" :> m_a[1]) @@ ("BIC Abnormal" :> m_a[2]) @@
       ("MSE Abnormal" :> m_a[3])

\* mutant: every listed name adds an entry, as a list of records would
DictSetAppend(d, key, record) == Append(d, record)

\* results[protein] = record: a dict keeps one entry per key, at the place
\* where the key was first inserted
DictSet(d, key, record) ==
    IF \E k \in 1..Len(d) : d[k]["Protein"] = key
    THEN [k \in 1..Len(d) |-> IF d[k]["Protein"] = key THEN record ELSE d[k]]
    ELSE Append(d, record)

(***************************************************************************)
(* Inputs of fit_cplmm_all_proteins.                                       *)
(***************************************************************************)
OnsetYears == <<-2, 0, 3>>

EmptyTable == [columns |-> BaseColumns, rows |-> <<>>]
VisitTable ==
    [columns |-> BaseColumns,
     rows |-> [r \in 1..Len(OnsetYears) |->
                 ("years_since_onset" :> <<OnsetYears[r]>>)]]

\* an empty table, a table of visits, the same with the basis columns present
CohortTables == {EmptyTable, VisitTable, PrivateCopy(VisitTable)}

ProteinLists == UNION {[1..n -> Proteins] : n \in 0..MaxProteins}

CohortOf(k) == CohortNames[k]

InitFit ==
    /\ call = "fit_cplmm_all_proteins"
    /\ pc = "fit_loop"
    /\ err = ""
    /\ cohorts \in [{"status", "normal", "abnormal"} -> CohortTables]
    /\ protein_list \in ProteinLists
    /\ i = 0
    /\ fits = <<>>
    /\ results = <<>>
    /\ df_results = NoFrame
    /\ df_local = NoFrame
    /\ visits = <<>> /\ df_sorted = <<>> /\ abnormal_seen = FALSE /\ returned = <<>>
    /\ alpha = Rat(1, 20) /\ rank_by = 1
    /\ results_df = <<>> /\ adjust_p = TRUE
    /\ wald_results = <<>> /\ wald_df = NoFrame
    /\ combined_expr = <<>> /\ gene_list = <<>> /\ group1 = "" /\ group2 = ""
    /\ mw_results = <<>> /\ mw_df = NoFrame

\* the cohort whose fit comes next in this iteration of "for protein in ..."
FitPending ==
    /\ pc = "fit_loop" /\ i < Len(protein_list)
    /\ Len(fits) < Len(CohortNames)

NextCohort == CohortOf(Len(fits) + 1)

\* what the helper call that comes next can return: the early tuple for an
\* empty table, else the tuple built from some result of the estimator
HelperReturns ==
    IF cohorts[NextCohort].rows = <<>>
    THEN {FitLmmAndGetSlopes(cohorts[NextCohort], None)}
    ELSE {FitLmmAndGetSlopes(cohorts[NextCohort], result) :
            result \in MixedLmResults(NextCohort)}

\* "s1, s3, r_status, se1, se3 = ..." on a tuple that is not five long
FitUnpackError ==
    /\ FitPending
    /\ \E ret \in HelperReturns : Len(ret) /= UnpackArity
    /\ Raise("ValueError")
    /\ UNCHANGED <<prepVars, call, alpha, rank_by, i, waldVars, mwVars, fitVars>>

\* model.fit() (or the model's construction) raises; nothing catches it
FitEstimatorError ==
    /\ FitPending
    /\ cohorts[NextCohort].rows /= <<>>
    /\ FormulaVars(NextCohort, protein_list[i + 1])
         \subseteq HelperFrames(cohorts[NextCohort]).local.columns
    /\ cohorts' = [cohorts EXCEPT ![NextCohort] = HelperFrames(@).caller]
    /\ df_local' = HelperFrames(cohorts[NextCohort]).local
    /\ Raise("EstimatorError")
    /\ UNCHANGED <<prepVars, call, alpha, rank_by, i, waldVars, mwVars,
                   protein_list, fits, results, df_results>>

\* the helper returns and the caller unpacks its five values
FitCohort ==
    /\ FitPending
    /\ \E ret \in HelperReturns :
          /\ Len(ret) = UnpackArity
          /\ fits' = Append(fits, ret)
    /\ cohorts' = [cohorts EXCEPT ![NextCohort] = HelperFrames(@).caller]
    /\ df_local' = HelperFrames(cohorts[NextCohort]).local
    /\ UNCHANGED <<prepVars, call, pc, err, alpha, rank_by, i, waldVars, mwVars,
                   protein_list, results, df_results>>

\* the three get_metrics calls: which of them need predict() to work
MetricsWork ==
    \A k \in 1..Len(CohortNames) :
        fits[k][3] /= None =>
            PredictWorks(CohortOf(k), protein_list[i + 1], cohorts[CohortOf(k)])

\* get_metrics: result.predict(df) raises on the caller's table
FitPredictError ==
    /\ pc = "fit_loop" /\ i < Len(protein_list)
    /\ Len(fits) = Len(CohortNames)
    /\ ~MetricsWork
    /\ Raise("PatsyError")
    /\ UNCHANGED <<prepVars, call, alpha, rank_by, i, waldVars, mwVars, fitVars>>

\* get_metrics three times, then results[protein] = {...}
FitStore ==
    /\ pc = "fit_loop" /\ i < Len(protein_list)
    /\ Len(fits) = Len(CohortNames)
    /\ MetricsWork
    /\ results' = DictSet(results, protein_list[i + 1],
                          SlopeRecord(protein_list[i + 1], fits))
    /\ fits' = <<>>
    /\ i' = i + 1
    /\ UNCHANGED <<prepVars, call, pc, err, alpha, rank_by, waldVars, mwVars,
                   cohorts, protein_list, df_results, df_local>>

\* pd.DataFrame.from_dict(results, orient='index'); reset_index; return
FitReturn ==
    /\ pc = "fit_loop" /\ i = Len(protein_list)
    /\ df_results' = DataFrame(results)
    /\ pc' = "done"
    /\ UNCHANGED <<prepVars, call, err, alpha, rank_by, i, waldVars, mwVars,
                   cohorts, protein_list, fits, results, df_local>>

(***************************************************************************)
(* compare_groups_mannwhitney                                              *)
(***************************************************************************)
RSub(a, b) == Rat(a[1] * b[2] - b[1] * a[2], a[2] * b[2])

RECURSIVE SumCells(_)
SumCells(s) == IF s = <<>> THEN 0 ELSE s[1][1] + SumCells(Tail(s))

\* Series.mean() of a sample without missing cells
Mean(sample) == Rat(SumCells(sample), Len(sample))

\* mutant: the rows are not restricted to the group's Source label
SampleAnySource(df, gene, group) ==
    LET Wanted(r) == r["Gene"] = gene /\ ~IsNa(r["Expression"])
        kept == SelectSeq(df, Wanted)
    IN [k \in 1..Len(kept) |-> kept[k]["Expression"]]

\* combined_expr[(Gene == gene) & (Source == group)]["Expression"].dropna()
Sample(df, gene, group) ==
    LET Wanted(r) == r["Gene"] = gene /\ r["Source"] = group
                     /\ ~IsNa(r["Expression"])
        kept == SelectSeq(df, Wanted)
    IN [k \in 1..Len(kept) |-> kept[k]["Expression"]]

\* scipy mannwhitneyu(x, y).statistic: U of the first sample, pairs x > y
\* counted once and ties one half
UStatistic(x, y) ==
    Rat(2 * Cardinality({q \in (1..Len(x)) \X (1..Len(y)) : x[q[1]][1] > y[q[2]][1]})
        + Cardinality({q \in (1..Len(x)) \X (1..Len(y)) : x[q[1]][1] = y[q[2]][1]}),
        2)

\* scipy mannwhitneyu(x, y, alternative="two-sided").pvalue, tabulated to four
\* decimals at the samples the model's tables hold (exact method without ties,
\* normal approximation with ties, clipped to 1)
MannWhitneyP(x, y) ==
    LET low == <<(<<1>>), (<<2>>), (<<3>>)>>
        high == <<(<<4>>), (<<5>>), (<<6>>)>>
        one == <<(<<4>>)>>
    IN CASE x = y -> Rat(10000, 10000)
         [] {x, y} = {low, high} -> Rat(1000, 10000)
         [] {x, y} = {low, one} -> Rat(5000, 10000)
         [] {x, y} = {high, one} -> Rat(6374, 10000)

MeanCol(group) == IF group = "A" THEN "A_mean" ELSE "B_mean"

\* mutant: the difference is taken the other way round
RankSumRecordReversed(gene, g1, g2, expr1, expr2) ==
    ("Gene" :> gene) @@
    (MeanCol(g2) :> Mean(expr2)) @@
    (MeanCol(g1) :> Mean(expr1)) @@
    ("Delta_mean" :> RSub(Mean(expr1), Mean(expr2))) @@
    ("U_statistic" :> UStatistic(expr1, expr2)) @@
    ("p_value" :> MannWhitneyP(expr1, expr2))

\* the dict appended to results for a gene with two non-empty samples
RankSumRecord(gene, g1, g2, expr1, expr2) ==
    ("Gene" :> gene) @@
    (MeanCol(g2) :> Mean(expr2)) @@
    (MeanCol(g1) :> Mean(expr1)) @@
    ("Delta_mean" :> RSub(Mean(expr2), Mean(expr1))) @@
    ("U_statistic" :> UStatistic(expr1, expr2)) @@
    ("p_value" :> MannWhitneyP(expr1, expr2))

\* results_df["FDR"] = ...; results_df["Significant"] = results_df["FDR"] < alpha
WithFdr(df, a) ==
    LET fdr == FdrBh(Column(df, "p_value"))
    IN WithColumn(WithColumn(df, "FDR", fdr), "Significant",
                  [r \in 1..Len(fdr) |-> RLt(fdr[r], a)])

(***************************************************************************)
(* Inputs of compare_groups_mannwhitney.                                   *)
(***************************************************************************)
Genes == {"G1", "G2"}

Cells(values) == [k \in 1..Len(values) |-> <<values[k]>>]

\* what one gene's rows hold: <<Expression of source "A", of source "B">>
GeneProfiles ==
    {<<Cells(<<1, 2, 3>>), Cells(<<4, 5, 6>>)>>,
     <<Cells(<<4, 5, 6>>), Cells(<<1, 2, 3>>)>>,
     <<Cells(<<1, 2, 3>>), <<Missing, <<4>>>>>>,
     <<(<<(<<4>>), Missing>>), (<<(<<4>>)>>)>>,
     <<Cells(<<1, 2, 3>>), (<<Missing>>)>>,
     <<(<<>>), Cells(<<4, 5, 6>>)>>}

ExprRows(gene, source, cells) ==
    [k \in 1..Len(cells) |->
        ("Gene" :> gene) @@ ("Expression" :> cells[k]) @@ ("Source" :> source)]

GeneRows(gene, profile) ==
    ExprRows(gene, "A", profile[1]) \o ExprRows(gene, "B", profile[2])

ExpressionTables ==
    {GeneRows("G1", f["G1"]) \o GeneRows("G2", f["G2"]) : f \in [Genes -> GeneProfiles]}

GeneLists == UNION {[1..n -> Genes] : n \in 0..MaxGenes}

InitMw ==
    /\ call = "compare_groups_mannwhitney"
    /\ pc = "mw_loop"
    /\ err = ""
    /\ combined_expr \in ExpressionTables
    /\ gene_list \in GeneLists
    /\ \E g \in {<<"A", "B">>, <<"B", "A">>} : group1 = g[1] /\ group2 = g[2]
    /\ alpha \in Alphas
    /\ rank_by \in {"FDR", "p_value", "Delta_mean", "score"}
    /\ i = 0
    /\ mw_results = <<>>
    /\ mw_df = NoFrame
    /\ results_df = <<>> /\ adjust_p = TRUE
    /\ wald_results = <<>> /\ wald_df = NoFrame
    /\ cohorts = <<>> /\ protein_list = <<>> /\ fits = <<>>
    /\ results = <<>> /\ df_results = NoFrame /\ df_local = NoFrame
    /\ visits = <<>> /\ df_sorted = <<>> /\ abnormal_seen = FALSE /\ returned = <<>>

Expr1 == Sample(combined_expr, gene_list[i + 1], group1)
Expr2 == Sample(combined_expr, gene_list[i + 1], group2)

\* loop body when "len(expr1) > 0 and len(expr2) > 0" is false
MwSkip ==
    /\ pc = "mw_loop" /\ i < Len(gene_list)
    /\ ~(Len(Expr1) > 0 /\ Len(Expr2) > 0)
    /\ i' = i + 1
    /\ UNCHANGED <<prepVars, call, pc, err, alpha, rank_by, waldVars, fitVars,
                   combined_expr, gene_list, group1, group2, mw_results, mw_df>>

\* loop body: test, delta, results.append
MwAppend ==
    /\ pc = "mw_loop" /\ i < Len(gene_list)
    /\ Len(Expr1) > 0 /\ Len(Expr2) > 0
    /\ mw_results' = Append(mw_results,
                            RankSumRecord(gene_list[i + 1], group1, group2,
                                          Expr1, Expr2))
    /\ i' = i + 1
    /\ UNCHANGED <<prepVars, call, pc, err, alpha, rank_by, waldVars, fitVars,
                   combined_expr, gene_list, group1, group2, mw_df>>

\* results_df = pd.DataFrame(results), then the FDR correction and the flag
MwFdr ==
    /\ pc = "mw_loop" /\ i = Len(gene_list)
    /\ "p_value" \in DataFrame(mw_results).columns
    /\ mw_df' = WithFdr(DataFrame(mw_results), alpha)
    /\ pc' = "mw_sort"
    /\ UNCHANGED <<prepVars, call, err, alpha, rank_by, i, waldVars, fitVars,
                   combined_expr, gene_list, group1, group2, mw_results>>

\* results_df["p_value"] on the frame of an empty list raises
MwFdrKeyError ==
    /\ pc = "mw_loop" /\ i = Len(gene_list)
    /\ "p_value" \notin DataFrame(mw_results).columns
    /\ mw_df' = DataFrame(mw_results)
    /\ Raise("KeyError")
    /\ UNCHANGED <<prepVars, call, alpha, rank_by, i, waldVars, fitVars,
                   combined_expr, gene_list, group1, group2, mw_results>>

\* mutant: every ranking field is sorted ascending
MwSortAscending ==
    /\ pc = "mw_sort"
    /\ rank_by \in mw_df.columns
    /\ \E f \in SortOrders(mw_df.rows, rank_by, TRUE) :
          mw_df' = Reordered(mw_df, f)
    /\ pc' = "done"
    /\ UNCHANGED <<prepVars, call, err, alpha, rank_by, i, waldVars, fitVars,
                   combined_expr, gene_list, group1, group2, mw_results>>

\* if rank_by in results_df.columns: sort by it, descending only for Delta_mean
MwSort ==
    /\ pc = "mw_sort"
    /\ rank_by \in mw_df.columns
    /\ \E f \in SortOrders(mw_df.rows, rank_by, rank_by /= "Delta_mean") :
          mw_df' = Reordered(mw_df, f)
    /\ pc' = "done"
    /\ UNCHANGED <<prepVars, call, err, alpha, rank_by, i, waldVars, fitVars,
                   combined_expr, gene_list, group1, group2, mw_results>>

\* mutant: a rank_by that is no column is handed to sort_values as it is
MwSortDefaultKeyError ==
    /\ pc = "mw_sort"
    /\ rank_by \notin mw_df.columns
    /\ Raise("KeyError")
    /\ UNCHANGED <<prepVars, call, alpha, rank_by, i, waldVars, fitVars, mwVars>>

\* else: sort_values("FDR")
MwSortDefault ==
    /\ pc = "mw_sort"
    /\ rank_by \notin mw_df.columns
    /\ \E f \in SortOrders(mw_df.rows, "FDR", TRUE) :
          mw_df' = Reordered(mw_df, f)
    /\ pc' = "done"
    /\ UNCHANGED <<prepVars, call, err, alpha, rank_by, i, waldVars, fitVars,
                   combined_expr, gene_list, group1, group2, mw_results>>

Init == InitWald \/ InitFit \/ InitMw

Next ==
    \/ WaldSkip
    \/ WaldAppend
    \/ WaldZeroDivision
    \/ WaldFrame
    \/ WaldAdjust
    \/ WaldAdjustKeyError
    \/ WaldNoAdjust
    \/ WaldRank
    \/ WaldRankKeyError
    \/ FitUnpackError
    \/ FitEstimatorError
    \/ FitCohort
    \/ FitPredictError
    \/ FitStore
    \/ FitReturn
    \/ MwSkip
    \/ MwAppend
    \/ MwFdr
    \/ MwFdrKeyError
    \/ MwSort
    \/ MwSortDefault

Spec == Init /\ [][Next]_vars

(***************************************************************************)
(* preprocessing: enforce_unidirectional_status_change and                 *)
(* identify_status_change_subjects                                         *)
(*                                                                         *)
(* A visit is a row with its index label (the default RangeIndex: the      *)
(* row's position in the input, from 0), subject_id, procedure_date and    *)
(* status_cleaned.                                                         *)
(***************************************************************************)
MaxVisits == 3      \* longest visit table handed to the preprocessing functions

Subjects == {1, 2}
Dates == {1, 2}
Statuses == {"Normal", "Abnormal", "MCI"}

VisitTables ==
    UNION {{[r \in 1..n |-> [index |-> r - 1,
                             subject_id |-> t[r][1],
                             procedure_date |-> t[r][2],
                             status_cleaned |-> t[r][3]]] :
              t \in [1..n -> Subjects \X Dates \X Statuses]} :
           n \in 0..MaxVisits}

\* row a sorts strictly before row b under by=[subject_id_col, date_col]
SortsBefore(a, b) ==
    \/ a.subject_id < b.subject_id
    \/ a.subject_id = b.subject_id /\ a.procedure_date < b.procedure_date

\* row put into an already sorted sequence, after the rows it does not sort
\* strictly before
RECURSIVE Inserted(_, _)
Inserted(sorted, row) ==
    IF sorted = <<>> THEN <<row>>
    ELSE IF SortsBefore(row, sorted[Len(sorted)])
         THEN Append(Inserted(SubSeq(sorted, 1, Len(sorted) - 1), row),
                     sorted[Len(sorted)])
         ELSE Append(sorted, row)

\* df.sort_values(by=[subject_id_col, date_col]): with several keys pandas
\* sorts lexicographically and keeps rows with equal keys in input order
RECURSIVE SortValues(_)
SortValues(rows) ==
    IF rows = <<>> THEN <<>>
    ELSE Inserted(SortValues(SubSeq(rows, 1, Len(rows) - 1)), rows[Len(rows)])

\* sub_df.at[idx, status_col] = value, in the group of one subject
At(rows, subject, idx, value) ==
    [k \in 1..Len(rows) |->
        IF rows[k].subject_id = subject /\ rows[k].index = idx
        THEN [rows[k] EXCEPT !.status_cleaned = value]
        ELSE rows[k]]

\* groupby(subject_id_col): row k opens the sub-table of its subject
OpensGroup(rows, k) == k = 1 \/ rows[k - 1].subject_id /= rows[k].subject_id

\* lambda x: (x[status_col] == "Normal").any() and (x[status_col] != "Normal").any()
StatusChanged(rows, subject) ==
    /\ \E k \in 1..Len(rows) :
          rows[k].subject_id = subject /\ rows[k].status_cleaned = "Normal"
    /\ \E k \in 1..Len(rows) :
          rows[k].subject_id = subject /\ rows[k].status_cleaned /= "Normal"

InitPrep ==
    /\ call \in {"enforce_unidirectional_status_change",
                 "identify_status_change_subjects"}
    /\ pc = "prep_sort"
    /\ err = ""
    /\ visits \in VisitTables
    /\ df_sorted = <<>> /\ abnormal_seen = FALSE /\ returned = <<>>
    /\ i = 0
    /\ alpha = Rat(1, 20) /\ rank_by = 1
    /\ results_df = <<>> /\ adjust_p = TRUE
    /\ wald_results = <<>> /\ wald_df = NoFrame
    /\ cohorts = <<>> /\ protein_list = <<>> /\ fits = <<>>
    /\ results = <<>> /\ df_results = NoFrame /\ df_local = NoFrame
    /\ combined_expr = <<>> /\ gene_list = <<>> /\ group1 = "" /\ group2 = ""
    /\ mw_results = <<>> /\ mw_df = NoFrame

\* df = df.sort_values(by=[subject_id_col, date_col]); groupby splits the
\* sorted table into one sub-table per subject, in subject order
EnforceSort ==
    /\ call = "enforce_unidirectional_status_change" /\ pc = "prep_sort"
    /\ df_sorted' = SortValues(visits)
    /\ returned' = SortValues(visits)
    /\ pc' = "enforce_loop"
    /\ UNCHANGED <<call, err, alpha, rank_by, i, waldVars, fitVars, mwVars,
                   visits, abnormal_seen>>

\* mutant: abnormal_seen is not reset when the next subject's rows begin
EnforceRowSharedFlag ==
    /\ pc = "enforce_loop" /\ i < Len(df_sorted)
    /\ LET row == df_sorted[i + 1]
           seen == abnormal_seen \/ row.status_cleaned = "Abnormal"
       IN /\ abnormal_seen' = seen
          /\ returned' = IF seen
                          THEN At(returned, row.subject_id, row.index, "Abnormal")
                          ELSE returned
    /\ i' = i + 1
    /\ UNCHANGED <<call, pc, err, alpha, rank_by, waldVars, fitVars, mwVars,
                   visits, df_sorted>>

\* one pass of "for idx, row in sub_df.iterrows()"; correct_status starts
\* with abnormal_seen = False on every subject's sub-table
EnforceRow ==
    /\ pc = "enforce_loop" /\ i < Len(df_sorted)
    /\ LET row == df_sorted[i + 1]
           before == IF OpensGroup(df_sorted, i + 1) THEN FALSE ELSE abnormal_seen
           seen == before \/ row.status_cleaned = "Abnormal"
       IN /\ abnormal_seen' = seen
          /\ returned' = IF seen
                          THEN At(returned, row.subject_id, row.index, "Abnormal")
                          ELSE returned
    /\ i' = i + 1
    /\ UNCHANGED <<call, pc, err, alpha, rank_by, waldVars, fitVars, mwVars,
                   visits, df_sorted>>

\* apply() has gone through every sub-table: the corrected sub-tables, laid
\* end to end, are returned
EnforceReturn ==
    /\ pc = "enforce_loop" /\ i = Len(df_sorted)
    /\ pc' = "done"
    /\ UNCHANGED <<call, err, alpha, rank_by, i, waldVars, fitVars, mwVars,
                   prepVars>>

\* df_sorted = df.sort_values(by=[subject_id_col, date_col])
IdentifySort ==
    /\ call = "identify_status_change_subjects" /\ pc = "prep_sort"
    /\ df_sorted' = SortValues(visits)
    /\ pc' = "identify_filter"
    /\ UNCHANGED <<call, err, alpha, rank_by, i, waldVars, fitVars, mwVars,
                   visits, abnormal_seen, returned>>

\* df_sorted.groupby(subject_id_col).filter(lambda ...): the rows of the
\* subjects the lambda accepts, in the order of df_sorted
IdentifyFilter ==
    /\ pc = "identify_filter"
    /\ LET Kept(row) == StatusChanged(df_sorted, row.subject_id)
       IN returned' = SelectSeq(df_sorted, Kept)
    /\ pc' = "done"
    /\ UNCHANGED <<call, err, alpha, rank_by, i, waldVars, fitVars, mwVars,
                   visits, df_sorted, abnormal_seen>>

NextPrep ==
    \/ EnforceSort
    \/ EnforceRow
    \/ EnforceReturn
    \/ IdentifySort
    \/ IdentifyFilter

SpecPrep == InitPrep /\ [][NextPrep]_vars

(***************************************************************************)
(* Properties.                                                             *)
(***************************************************************************)
FitCall == call = "fit_cplmm_all_proteins"
WaldCall == call = "compute_wald_test"
MwCall == call = "compare_groups_mannwhitney"

\* the columns of the slope table that one cohort's fit fills
CohortFields(cohort) ==
    CASE cohort = "status" ->
           {"Beta 1", "SE Beta 1", "Beta 3", "SE Beta 3",
            "AIC Status", "BIC Status", "MSE Status"}
      [] cohort = "normal" ->
           {"Beta 2", "SE Beta 2", "AIC Normal", "BIC Normal", "MSE Normal"}
      [] cohort = "abnormal" ->
           {"Beta 4", "SE Beta 4", "AIC Abnormal", "BIC Abnormal", "MSE Abnormal"}

EmptyCohorts == {c \in DOMAIN cohorts : cohorts[c].rows = <<>>}

\* C1: fit_cplmm_all_proteins called with a cohort table of zero rows does not
\* raise on account of it, and when it has returned, every row of the slope
\* table has that cohort's slope, SE, AIC, BIC and MSE missing.
C1_EmptyCohortGivesMissing ==
    (FitCall /\ EmptyCohorts /= {}) =>
        /\ err /= "ValueError"
        /\ pc = "done" =>
              /\ Len(df_results.rows) = Cardinality({protein_list[k] : k \in 1..Len(protein_list)})
              /\ \A r \in 1..Len(df_results.rows) : \A c \in EmptyCohorts :
                    \A col \in CohortFields(c) : df_results.rows[r][col] = Missing

\* C2: a failure of the mixed-model estimator for one biomarker in one cohort
\* is caught inside fit_cplmm_all_proteins: it never reaches the caller.
C2_EstimatorFailureCaught ==
    FitCall => err /= "EstimatorError"

\* C3: with an empty always-abnormal table and two other cohorts that fit, every
\* listed biomarker gets a slope row whose Beta 4 / SE Beta 4 are missing and
\* whose Beta 1, 2, 3, their SEs and the Status / Normal metrics are what the
\* other two fits produced; that row is incomplete for the Wald comparator.
C3_CohortFitsIndependent ==
    (/\ FitCall
     /\ cohorts["abnormal"].rows = <<>>
     /\ cohorts["status"].rows /= <<>>
     /\ cohorts["normal"].rows /= <<>>
     /\ PredictWorks("status", "P1", cohorts["status"])
     /\ PredictWorks("normal", "P1", cohorts["normal"])) =>
        /\ err /= "ValueError"
        /\ pc = "done" =>
              \A k \in 1..Len(protein_list) :
                 \E r \in 1..Len(df_results.rows) :
                    LET row == df_results.rows[r]
                    IN /\ row["Protein"] = protein_list[k]
                       /\ row["Beta 4"] = Missing /\ row["SE Beta 4"] = Missing
                       /\ \A col \in CohortFields("status") \cup CohortFields("normal") :
                             row[col] /= Missing
                       /\ \E c \in BetaCols : row[c] = Missing

\* the names of the proteins of a sequence of rows
ProteinsOf(rows) == {rows[r]["Protein"] : r \in 1..Len(rows)}

\* input row r holds all eight values
CompleteInput(r) == \A c \in BetaCols : results_df[r][c] /= Missing

\* C4: compute_wald_test keeps an input row exactly when its eight betas and
\* SEs are all present: after every pass of the loop the collected records are
\* those of the complete rows read so far, and the returned table has one row
\* per complete input row, none with a missing beta or SE.
C4_CompletenessFilter ==
    WaldCall =>
        /\ ProteinsOf(wald_results) =
              {results_df[r]["Protein"] : r \in {q \in 1..i : CompleteInput(q)}}
        /\ Len(wald_results) = Cardinality({q \in 1..i : CompleteInput(q)})
        /\ pc = "done" =>
              /\ ProteinsOf(wald_df.rows) =
                    {results_df[r]["Protein"] :
                        r \in {q \in 1..Len(results_df) : CompleteInput(q)}}
              /\ Len(wald_df.rows) =
                    Cardinality({q \in 1..Len(results_df) : CompleteInput(q)})
              /\ \A r \in 1..Len(wald_df.rows) : \A c \in BetaCols :
                    wald_df.rows[r][c] /= Missing

\* a returned table that kept one input row and dropped the other
C4_Witness ==
    /\ WaldCall /\ pc = "done"
    /\ Len(results_df) = 2 /\ Len(wald_df.rows) = 1
    /\ \E r \in 1..2 : ~CompleteInput(r)

\* C5: the comparators never raise for want of a surviving row: when every
\* biomarker row is incomplete, or every gene lacks a sample, they return a
\* table (possibly empty).
C5_ExclusionNeverCrashes ==
    (WaldCall \/ MwCall) => err /= "KeyError"

\* W * (se_a^2 + se_b^2) = (beta_a - beta_b)^2, for a rational W
IsWaldOf(w, beta_a, se_a, beta_b, se_b) ==
    w[1] * (se_a[1] * se_a[1] + se_b[1] * se_b[1])
        = w[2] * (beta_a[1] - beta_b[1]) * (beta_a[1] - beta_b[1])

WaldFormulaHolds(row) ==
    /\ IsWaldOf(row["Wald Statistic 1"], row["Beta 1"], row["SE Beta 1"],
                row["Beta 3"], row["SE Beta 3"])
    /\ IsWaldOf(row["Wald Statistic 2"], row["Beta 2"], row["SE Beta 2"],
                row["Beta 4"], row["SE Beta 4"])
    /\ (row["Beta 1"] = <<10>> /\ row["SE Beta 1"] = <<2>>
        /\ row["Beta 3"] = <<-6>> /\ row["SE Beta 3"] = <<4>>)
          => row["Wald Statistic 1"] = <<64, 5>>

\* C6: every record compute_wald_test collects, and every row it returns,
\* carries Wald Statistic 1 = (Beta 1 - Beta 3)^2 / (SE Beta 1^2 + SE Beta 3^2)
\* and Wald Statistic 2 = (Beta 2 - Beta 4)^2 / (SE Beta 2^2 + SE Beta 4^2);
\* Beta1 = 0.5, SE1 = 0.1, Beta3 = -0.3, SE3 = 0.2 gives 12.8.
C6_WaldStatistics ==
    WaldCall =>
        /\ \A r \in 1..Len(wald_results) : WaldFormulaHolds(wald_results[r])
        /\ \A r \in 1..Len(wald_df.rows) : WaldFormulaHolds(wald_df.rows[r])

\* the spec's scenario A came out of the call: 12.8 and 7.2
C6_Witness ==
    /\ WaldCall /\ pc = "done"
    /\ \E r \in 1..Len(wald_df.rows) :
          /\ wald_df.rows[r]["Beta 1"] = <<10>>
          /\ wald_df.rows[r]["Beta 3"] = <<-6>>
          /\ wald_df.rows[r]["Wald Statistic 1"] = <<64, 5>>
          /\ wald_df.rows[r]["Wald Statistic 2"] = <<36, 5>>

\* the record collected for input row r shows statistic 0 and p-value 1 in
\* comparison n
NullReported(r, n) ==
    \E k \in 1..Len(wald_results) :
        /\ wald_results[k]["Protein"] = results_df[r]["Protein"]
        /\ wald_results[k][IF n = 1 THEN "Wald Statistic 1"
                           ELSE "Wald Statistic 2"] = <<0, 1>>
        /\ wald_results[k][PCol(n)] = <<1, 1>>

EqualSlopes(r, n) ==
    /\ CompleteInput(r)
    /\ IF n = 1 THEN results_df[r]["Beta 1"] = results_df[r]["Beta 3"]
       ELSE results_df[r]["Beta 2"] = results_df[r]["Beta 4"]

\* C7: a complete row whose two compared slopes are equal gets Wald statistic 0
\* and raw p-value 1.0 in that comparison, whatever its standard errors: every
\* such row the loop has read is reported so, and the loop does not fail on one.
C7_WaldNullCase ==
    WaldCall =>
        \A n \in {1, 2} :
            /\ \A r \in 1..i : EqualSlopes(r, n) => NullReported(r, n)
            /\ (pc = "raised" /\ i < Len(results_df) /\ EqualSlopes(i + 1, n))
                  => err /= "ZeroDivisionError"

\* smallest element of a non-empty set of rationals
RMinOf(S) == CHOOSE x \in S : \A y \in S : RLe(x, y)

\* Benjamini-Hochberg adjusted value of element r of pvals, by its definition:
\* min over the p-values q >= p_r of q * n / #{p <= q}, at most 1
BenjaminiHochberg(pvals, r) ==
    LET n == Len(pvals)
        AtMost(q) == Cardinality({k \in 1..n : RLe(pvals[k], q)})
        steps == {Rat(pvals[j][1] * n, pvals[j][2] * AtMost(pvals[j])) :
                     j \in {k \in 1..n : RLe(pvals[r], pvals[k])}}
    IN RMinOf(steps \cup {ROne})

\* C8: with adjust_p, each adjusted column is the Benjamini-Hochberg adjustment
\* of its own raw column over the n rows of the Wald table, and so a function
\* of that column alone.
C8_ColumnsAdjustedSeparately ==
    (WaldCall /\ adjust_p /\ pc \in {"wald_rank", "done"}) =>
        \A n \in {1, 2} : \A r \in 1..Len(wald_df.rows) :
            wald_df.rows[r][AdjCol(n)]
                = BenjaminiHochberg(Column(wald_df, PCol(n)), r)

\* two adjusted rows whose two raw columns differ
C8_Witness ==
    /\ WaldCall /\ adjust_p /\ pc = "done"
    /\ Len(wald_df.rows) = 2
    /\ Column(wald_df, "P-value 1") /= Column(wald_df, "P-value 2")
    /\ \E r \in 1..2 : wald_df.rows[r]["Adjusted P-value 1"]
                          /= wald_df.rows[r]["P-value 1"]

\* p < a for rationals, written out
Below(p, a) == p[1] * a[2] < a[1] * p[2]

\* C9: a row is flagged significant exactly when its adjusted p-value is
\* strictly below alpha, in compute_wald_test (both comparisons) and in
\* compare_groups_mannwhitney; an adjusted p-value equal to alpha is not flagged.
C9_FlagStrictlyBelowAlpha ==
    /\ (WaldCall /\ "Significant 1" \in wald_df.columns) =>
          \A r \in 1..Len(wald_df.rows) : \A n \in {1, 2} :
              wald_df.rows[r][SigCol(n)] <=> Below(wald_df.rows[r][AdjCol(n)], alpha)
    /\ (MwCall /\ "Significant" \in mw_df.columns) =>
          \A r \in 1..Len(mw_df.rows) :
              mw_df.rows[r]["Significant"] <=> Below(mw_df.rows[r]["FDR"], alpha)

\* a returned Wald table with a flagged row and a row at exactly alpha
C9_Witness ==
    /\ WaldCall /\ pc = "done" /\ adjust_p
    /\ \E r \in 1..Len(wald_df.rows) :
          /\ wald_df.rows[r]["Adjusted P-value 1"] = alpha
          /\ ~wald_df.rows[r]["Significant 1"]
    /\ \E r \in 1..Len(wald_df.rows) : wald_df.rows[r]["Significant 1"]

\* raw and adjusted columns are ordered alike and adjusted >= raw
MonotoneAdjustment(df, raw, adj) ==
    \A a, b \in 1..Len(df.rows) :
        /\ RLe(df.rows[a][raw], df.rows[b][raw])
              => RLe(df.rows[a][adj], df.rows[b][adj])
        /\ RLe(df.rows[a][raw], df.rows[a][adj])

\* C10: in every adjusted column of both comparators, raw_p[i] <= raw_p[j]
\* implies adjusted_p[i] <= adjusted_p[j], and adjusted_p[i] >= raw_p[i].
C10_FdrMonotone ==
    /\ (WaldCall /\ "Adjusted P-value 1" \in wald_df.columns) =>
          /\ MonotoneAdjustment(wald_df, "P-value 1", "Adjusted P-value 1")
          /\ MonotoneAdjustment(wald_df, "P-value 2", "Adjusted P-value 2")
    /\ (MwCall /\ "FDR" \in mw_df.columns) =>
          MonotoneAdjustment(mw_df, "p_value", "FDR")

\* two rows with the same raw p-value below one half: the running minimum acts
C10_Witness ==
    /\ WaldCall /\ pc = "done" /\ adjust_p
    /\ Len(wald_df.rows) = 2
    /\ wald_df.rows[1]["P-value 1"] = wald_df.rows[2]["P-value 1"]
    /\ RLt(wald_df.rows[1]["P-value 1"], <<1, 2>>)
    /\ wald_df.rows[1]["Adjusted P-value 1"] = wald_df.rows[1]["P-value 1"]

\* the ranking column the call was asked for
RankingColumn ==
    IF adjust_p
    THEN (IF rank_by = 1 THEN "Adjusted P-value 1" ELSE "Adjusted P-value 2")
    ELSE (IF rank_by = 1 THEN "P-value 1" ELSE "P-value 2")

\* compute_wald_test has returned a table ranked by comparison 1 or 2
WaldReturned == WaldCall /\ pc = "done" /\ rank_by \in {1, 2}

\* C11: the rows compute_wald_test returns are in ascending order of the
\* p-value column of the comparison rank_by selects (adjusted when adjust_p,
\* raw otherwise), and the row at position k carries Rank k.
C11_SortedByRankingColumn ==
    WaldReturned =>
        /\ \A a, b \in 1..Len(wald_df.rows) :
              a < b => ~Below(wald_df.rows[b][RankingColumn],
                              wald_df.rows[a][RankingColumn])
        /\ \A k \in 1..Len(wald_df.rows) : wald_df.rows[k]["Rank"] = k

\* ranked by the second comparison, the second input row came out first
C11_Witness ==
    /\ WaldReturned /\ rank_by = 2
    /\ Len(wald_df.rows) = 2
    /\ wald_df.rows[1]["Protein"] = "P2"
    /\ Below(wald_df.rows[1][RankingColumn], wald_df.rows[2][RankingColumn])
    /\ Below(wald_df.rows[2][PCol(1)], wald_df.rows[1][PCol(1)])

\* C12: Rank is a dense rank: rows with equal values in the ranking column
\* carry the same Rank, and the Rank values used are exactly 1..d for d the
\* number of distinct values of the ranking column.
C12_DenseRank ==
    WaldReturned =>
        /\ \A a, b \in 1..Len(wald_df.rows) :
              wald_df.rows[a][RankingColumn] = wald_df.rows[b][RankingColumn]
                 => wald_df.rows[a]["Rank"] = wald_df.rows[b]["Rank"]
        /\ {wald_df.rows[k]["Rank"] : k \in 1..Len(wald_df.rows)}
              = 1..Cardinality({wald_df.rows[k][RankingColumn] :
                                   k \in 1..Len(wald_df.rows)})

\* position of a protein in the input slope table
InputPosition(protein) ==
    CHOOSE r \in 1..Len(results_df) : results_df[r]["Protein"] = protein

\* C13: two returned rows with equal values in the ranking column are in the
\* order their biomarkers had in the input slope table.
C13_StableTies ==
    WaldReturned =>
        \A a, b \in 1..Len(wald_df.rows) :
            (a < b /\ wald_df.rows[a][RankingColumn] = wald_df.rows[b][RankingColumn])
               => InputPosition(wald_df.rows[a]["Protein"])
                    < InputPosition(wald_df.rows[b]["Protein"])

\* C18: compute_wald_test with a rank_by other than 1 or 2 does not raise for
\* want of the ranking column: having collected a record, it ranks by a
\* default column and returns.
C18_WaldRankFallback ==
    (WaldCall /\ rank_by \notin {1, 2} /\ Len(wald_results) > 0) =>
        err /= "KeyError"

\* the rows of combined_expr that hold a value of gene in group
ValueRows(gene, group) ==
    {r \in 1..Len(combined_expr) :
        /\ combined_expr[r]["Gene"] = gene
        /\ combined_expr[r]["Source"] = group
        /\ combined_expr[r]["Expression"] /= Missing}

\* gene has a value in both groups
InBothGroups(gene) ==
    ValueRows(gene, group1) /= {} /\ ValueRows(gene, group2) /= {}

\* C14: a gene of gene_list is in the output of compare_groups_mannwhitney
\* exactly when it has a non-missing Expression value in group1 and one in
\* group2: so for the records collected after every pass of the loop, and for
\* the returned table.
C14_RankSumDropRule ==
    MwCall =>
        /\ {mw_results[k]["Gene"] : k \in 1..Len(mw_results)}
              = {gene_list[q] : q \in {n \in 1..i : InBothGroups(gene_list[n])}}
        /\ pc = "done" =>
              {mw_df.rows[k]["Gene"] : k \in 1..Len(mw_df.rows)}
                = {gene_list[q] :
                     q \in {n \in 1..Len(gene_list) : InBothGroups(gene_list[n])}}

\* a returned table without a listed gene whose rows of one group hold
\* missing values only
C14_Witness ==
    /\ MwCall /\ pc = "done" /\ Len(mw_df.rows) = 1
    /\ \E n \in 1..Len(gene_list) :
          /\ \A k \in 1..Len(mw_df.rows) : mw_df.rows[k]["Gene"] /= gene_list[n]
          /\ \E r \in 1..Len(combined_expr) :
                /\ combined_expr[r]["Gene"] = gene_list[n]
                /\ combined_expr[r]["Expression"] = Missing
          /\ \A r \in 1..Len(combined_expr) :
                (combined_expr[r]["Gene"] = gene_list[n]
                 /\ combined_expr[r]["Source"] = "B")
                   => combined_expr[r]["Expression"] = Missing

\* sum of the values of the rows numbered up to k that are in rows
RECURSIVE SumUpTo(_, _)
SumUpTo(k, rows) ==
    IF k = 0 THEN 0
    ELSE SumUpTo(k - 1, rows)
           + (IF k \in rows THEN combined_expr[k]["Expression"][1] ELSE 0)

\* m is the mean of the values of gene in group
IsMeanOf(m, gene, group) ==
    m[1] * Cardinality(ValueRows(gene, group))
        = m[2] * SumUpTo(Len(combined_expr), ValueRows(gene, group))

\* rec reports the two sample means and their difference, second minus first
DeltaHolds(rec) ==
    LET m1 == rec[IF group1 = "A" THEN "A_mean" ELSE "B_mean"]
        m2 == rec[IF group2 = "A" THEN "A_mean" ELSE "B_mean"]
        d == rec["Delta_mean"]
    IN /\ IsMeanOf(m1, rec["Gene"], group1)
       /\ IsMeanOf(m2, rec["Gene"], group2)
       /\ d[1] * m1[2] * m2[2] = d[2] * (m2[1] * m1[2] - m1[1] * m2[2])
       /\ (m1 = <<2, 1>> /\ m2 = <<5, 1>>) => d = <<3, 1>>

\* C15: every record and every returned row of compare_groups_mannwhitney has
\* Delta_mean = mean(group2 sample) - mean(group1 sample), the two reported
\* means being those of the non-missing samples; [1,2,3] against [4,5,6]
\* gives 3.
C15_DeltaIsSecondMinusFirst ==
    MwCall =>
        /\ \A k \in 1..Len(mw_results) : DeltaHolds(mw_results[k])
        /\ \A k \in 1..Len(mw_df.rows) : DeltaHolds(mw_df.rows[k])

\* the spec's scenario C came out: means 2 and 5, difference 3
C15_Witness ==
    /\ MwCall /\ pc = "done" /\ group1 = "A"
    /\ \E k \in 1..Len(mw_df.rows) :
          /\ mw_df.rows[k]["A_mean"] = <<2, 1>>
          /\ mw_df.rows[k]["B_mean"] = <<5, 1>>
          /\ mw_df.rows[k]["Delta_mean"] = <<3, 1>>

\* the rows of df are in ascending order of col
Ascending(df, col) ==
    \A a, b \in 1..Len(df.rows) :
        a < b => ~Below(df.rows[b][col], df.rows[a][col])

\* the rows of df are in descending order of col
Descending(df, col) ==
    \A a, b \in 1..Len(df.rows) :
        a < b => ~Below(df.rows[a][col], df.rows[b][col])

\* C16: the table compare_groups_mannwhitney returns is sorted ascending when
\* rank_by is "p_value" or "FDR" and descending when rank_by is "Delta_mean".
C16_SortDirection ==
    (MwCall /\ pc = "done") =>
        /\ rank_by \in {"p_value", "FDR"} => Ascending(mw_df, rank_by)
        /\ rank_by = "Delta_mean" => Descending(mw_df, "Delta_mean")

\* ranked by Delta_mean, the second listed gene came out first with the
\* larger difference
C16_Witness ==
    /\ MwCall /\ pc = "done" /\ rank_by = "Delta_mean"
    /\ Len(mw_df.rows) = 2
    /\ mw_df.rows[1]["Gene"] = gene_list[2]
    /\ Below(mw_df.rows[2]["Delta_mean"], mw_df.rows[1]["Delta_mean"])

\* C17: compare_groups_mannwhitney with a rank_by that is no column of the
\* result table does not raise on that account: the sort step taken with such
\* a rank_by ends the call with the rows in ascending order of FDR, and no
\* step of such a call raises once a record has been collected.
C17_RankSumFallback ==
    [][(MwCall /\ rank_by = "score") =>
          /\ pc = "mw_sort" => (pc' = "done" /\ Ascending(mw_df', "FDR"))
          /\ pc' = "raised" => mw_results = <<>>]_vars

\* called with rank_by "score", two genes came back, the second listed gene
\* first with the smaller FDR
C17_Witness ==
    /\ MwCall /\ rank_by = "score" /\ pc = "done"
    /\ Len(mw_df.rows) = 2
    /\ mw_df.rows[1]["Gene"] = gene_list[2]
    /\ Below(mw_df.rows[1]["FDR"], mw_df.rows[2]["FDR"])

\* C19: no step of fit_cplmm_all_proteins, whether the call goes on to return
\* or to fail, changes a column or a value of the three cohort tables the
\* caller passed: before_onset and after_onset go to the helper's own copy.
C19_CallerTablesUntouched ==
    [][FitCall => cohorts' = cohorts]_vars

\* three fits were made on tables that came, and still are, without the two
\* derived columns
C19_Witness ==
    /\ FitCall /\ Len(fits) = 3
    /\ \A c \in DOMAIN cohorts :
          /\ cohorts[c].rows /= <<>>
          /\ cohorts[c].columns \cap {"before_onset", "after_onset"} = {}

\* the slope record stored for protein
StoredRecord(d, protein) ==
    d[CHOOSE k \in 1..Len(d) : d[k]["Protein"] = protein]

\* C20: the record stored for a biomarker reports, from the result of the
\* transitioning-cohort fit, Beta 1 = -(before_onset coefficient), Beta 3 =
\* after_onset coefficient, and SE Beta 1 / SE Beta 3 = the two standard
\* errors as estimated.
C20_SignNormalization ==
    [][(FitCall /\ i' = i + 1) =>
          LET estimate == fits[1][3]
              rec == StoredRecord(results', protein_list[i + 1])
          IN /\ rec["Beta 1"][1] + estimate.fe_params["before_onset"][1] = 0
             /\ rec["Beta 3"] = estimate.fe_params["after_onset"]
             /\ rec["SE Beta 1"] = estimate.bse["before_onset"]
             /\ rec["SE Beta 3"] = estimate.bse["after_onset"]]_vars

\* a returned slope table with Beta 1 = 0.5 from a before_onset coefficient
\* of -0.5
C20_Witness ==
    /\ FitCall /\ pc = "done"
    /\ \E r \in 1..Len(df_results.rows) :
          /\ df_results.rows[r]["Beta 1"] = <<10>>
          /\ df_results.rows[r]["Beta 3"] = <<6>>
          /\ df_results.rows[r]["SE Beta 1"] = <<2>>

\* the names of a list, each at its first occurrence
RECURSIVE FirstOccurrences(_)
FirstOccurrences(list) ==
    IF list = <<>> THEN <<>>
    ELSE LET front == FirstOccurrences(SubSeq(list, 1, Len(list) - 1))
             last == list[Len(list)]
         IN IF \E k \in 1..Len(front) : front[k] = last
            THEN front ELSE Append(front, last)

\* the Protein column of the returned slope table
ReturnedProteins == [k \in 1..Len(df_results.rows) |-> df_results.rows[k]["Protein"]]

\* C21 as claimed: the returned slope table has one row per entry of
\* protein_list, the i-th row being that of the i-th entry, also when the list
\* repeats a name.
C21_OneRowPerListEntry ==
    (FitCall /\ pc = "done") => ReturnedProteins = protein_list

\* C21 as amended: the returned slope table has one row per distinct name of
\* protein_list, in the order of the names' first occurrences, without
\* resorting; a repeated name gets one row.
C21_OneRowPerDistinctName ==
    (FitCall /\ pc = "done") => ReturnedProteins = FirstOccurrences(protein_list)

\* a list naming the same biomarker twice came back as a single row
C21_Witness ==
    /\ FitCall /\ pc = "done"
    /\ Len(protein_list) = 2 /\ protein_list[1] = protein_list[2]
    /\ Len(df_results.rows) = 1

\* the complete rows of the whole input slope table
CompleteRows == {q \in 1..Len(results_df) : CompleteInput(q)}

\* the listed genes that have a sample in both groups
TestedGenes == {n \in 1..Len(gene_list) : InBothGroups(gene_list[n])}

\* C23: in both comparators an adjusted p-value, a significance flag or a rank
\* exists only once the loop has consumed every input item, and the adjusted
\* column is the Benjamini-Hochberg adjustment over exactly the rows that
\* survived exclusion.
C23_BatchGlobal ==
    /\ (WaldCall /\ wald_df.columns \cap {"Adjusted P-value 1", "Adjusted P-value 2",
                                          "Significant 1", "Significant 2", "Rank"} /= {})
          => /\ i = Len(results_df)
             /\ Len(wald_df.rows) = Cardinality(CompleteRows)
             /\ ProteinsOf(wald_df.rows) = {results_df[q]["Protein"] : q \in CompleteRows}
             /\ "Adjusted P-value 1" \in wald_df.columns =>
                   \A r \in 1..Len(wald_df.rows) :
                       wald_df.rows[r]["Adjusted P-value 1"]
                          = BenjaminiHochberg(Column(wald_df, "P-value 1"), r)
    /\ (MwCall /\ mw_df.columns \cap {"FDR", "Significant"} /= {})
          => /\ i = Len(gene_list)
             /\ Len(mw_df.rows) = Cardinality(TestedGenes)
             /\ \A r \in 1..Len(mw_df.rows) :
                   mw_df.rows[r]["FDR"] = BenjaminiHochberg(Column(mw_df, "p_value"), r)

\* adjusted but not yet ranked: one input row was excluded, one adjusted
C23_Witness ==
    /\ WaldCall /\ pc = "wald_rank" /\ adjust_p
    /\ Len(results_df) = 2 /\ Cardinality(CompleteRows) = 1
    /\ "Adjusted P-value 2" \in wald_df.columns
    /\ "Rank" \notin wald_df.columns

\* C26: the record stored for a biomarker has Beta 2 = -(before_onset
\* coefficient of the always-normal fit) and Beta 4 = after_onset coefficient
\* of the always-abnormal fit, not negated; the other slope the helper returns
\* for those two fits is missing and is in no field of the record.
C26_FlipInSharedHelper ==
    [][(FitCall /\ i' = i + 1) =>
          LET normal == fits[2]
              abnormal == fits[3]
              rec == StoredRecord(results', protein_list[i + 1])
          IN /\ rec["Beta 2"][1] + normal[3].fe_params["before_onset"][1] = 0
             /\ rec["Beta 4"] = abnormal[3].fe_params["after_onset"]
             /\ normal[2] = Missing /\ abnormal[1] = Missing
             /\ \A c \in BetaCols : rec[c] /= Missing]_vars

\* a returned row with Beta 2 = -0.3 from a coefficient of 0.3 and Beta 4 =
\* -0.5 from a coefficient of -0.5
C26_Witness ==
    /\ FitCall /\ pc = "done"
    /\ \E r \in 1..Len(df_results.rows) :
          /\ df_results.rows[r]["Beta 2"] = <<-6>>
          /\ df_results.rows[r]["Beta 4"] = <<-10>>

\* C27: when a fit succeeded on a caller table without before_onset and
\* after_onset, the MSE step that follows completes: predict gets every
\* variable of the formula.
C27_MseStepCompletes ==
    (FitCall /\ \E c \in DOMAIN cohorts :
                   /\ cohorts[c].rows /= <<>>
                   /\ cohorts[c].columns \cap {"before_onset", "after_onset"} = {})
        => err /= "PatsyError"

\* C28: compute_wald_test gives every complete input row, zero standard errors
\* included, finite Wald statistics >= 0 and raw p-values in [0, 1]: no row
\* makes the division fail and every collected record is in range.
C28_WellDefinedValues ==
    WaldCall =>
        /\ err /= "ZeroDivisionError"
        /\ \A k \in 1..Len(wald_results) : \A n \in {1, 2} :
              LET w == wald_results[k][IF n = 1 THEN "Wald Statistic 1"
                                       ELSE "Wald Statistic 2"]
                  p == wald_results[k][PCol(n)]
              IN /\ Len(w) = 2 /\ w[1] >= 0 /\ w[2] > 0
                 /\ Len(p) = 2 /\ 0 <= p[1] /\ p[1] <= p[2]

\* C22: in the table a fit is made on, every visit with time since onset t has
\* before_onset = max(0, -t) and after_onset = max(0, t): both >= 0, their
\* product 0, exactly one positive when t /= 0, both 0 at t = 0, and
\* after_onset - before_onset = t.
C22_BasisDecomposition ==
    FitCall =>
        \A r \in 1..Len(df_local.rows) :
            LET t == df_local.rows[r]["years_since_onset"][1]
                pre == df_local.rows[r]["before_onset"][1]
                post == df_local.rows[r]["after_onset"][1]
            IN /\ pre >= 0 /\ post >= 0
               /\ pre * post = 0
               /\ t /= 0 => ((pre > 0) /= (post > 0))
               /\ t = 0 => (pre = 0 /\ post = 0)
               /\ post - pre = t
               /\ pre = (IF t < 0 THEN 0 - t ELSE 0)
               /\ post = (IF t > 0 THEN t ELSE 0)

\* a fit was made on visits before, at and after onset of a table that came
\* without the two columns
C22_Witness ==
    /\ FitCall /\ Len(fits) >= 1
    /\ cohorts["status"].columns \cap {"before_onset", "after_onset"} = {}
    /\ \E a, b, c \in 1..Len(df_local.rows) :
          /\ df_local.rows[a]["before_onset"] = <<2>>
          /\ df_local.rows[b]["years_since_onset"] = <<0>>
          /\ df_local.rows[c]["after_onset"] = <<3>>

EnforceCall == call = "enforce_unidirectional_status_change"
IdentifyCall == call = "identify_status_change_subjects"

\* the visit as it was handed in
Original(row) == visits[row.index + 1]

\* the rows of tbl are those of visits, sorted by subject, then by date
SortedBySubjectAndDate(tbl) ==
    /\ Len(tbl) = Len(visits)
    /\ {tbl[k].index : k \in 1..Len(tbl)} = {q - 1 : q \in 1..Len(visits)}
    /\ \A k \in 1..Len(tbl) :
          /\ tbl[k].subject_id = Original(tbl[k]).subject_id
          /\ tbl[k].procedure_date = Original(tbl[k]).procedure_date
    /\ \A j, k \in 1..Len(tbl) :
          j < k => /\ tbl[j].subject_id <= tbl[k].subject_id
                   /\ tbl[j].subject_id = tbl[k].subject_id
                         => tbl[j].procedure_date <= tbl[k].procedure_date

\* the subject of row k was Abnormal at that visit or at one before it
AbnormalByThen(tbl, k) ==
    \E j \in 1..k :
        /\ tbl[j].subject_id = tbl[k].subject_id
        /\ Original(tbl[j]).status_cleaned = "Abnormal"

C25_OnlyNormalToAbnormal ==
    (IdentifyCall /\ pc = "done") =>
        \A k \in 1..Len(returned) :
            /\ \E a, b \in 1..Len(visits) :
                  /\ visits[a].subject_id = returned[k].subject_id
                  /\ visits[b].subject_id = returned[k].subject_id
                  /\ visits[a].procedure_date <= visits[b].procedure_date
                  /\ visits[a].status_cleaned = "Normal"
                  /\ visits[b].status_cleaned /= "Normal"
            /\ \A a \in 1..Len(visits) :
                  visits[a].subject_id = returned[k].subject_id
                     => \E j \in 1..Len(returned) : returned[j] = visits[a]

====
